---- MODULE Spec2Model ----
(***************************************************************************)
(* Model of project/streamlit_app.py: load_data (column normalisation of   *)
(* the pickled table) and the top-to-bottom render pass of the dashboard   *)
(* script (metric filter, device filter, sort, no-data guard, row-index    *)
(* slider, summary metrics, time series, histogram, outlier table).        *)
(*                                                                         *)
(* A table (pandas DataFrame) is a record                                  *)
(*    index : the sequence of row labels,                                  *)
(*    col   : a function from the column names present to the sequences of *)
(*            cell values (all of the length of index),                    *)
(*    cats  : for the columns of categorical dtype, their categories.      *)
(***************************************************************************)
EXTENDS Integers, Sequences, FiniteSets, TLC

VARIABLES
    src,               \* the pickled table read by pd.read_pickle
    df,                \* the module-level df = load_data()
    pc,                \* position of the script
    df_filtered,       \* the module-level df_filtered
    selected_metrics,  \* value of the "metric_filter" multiselect
    selected_devices,  \* value of the "device_filter" multiselect
    n_rows,            \* len(df_filtered) taken at line 90
    start_idx,         \* slider value, lower end
    end_idx,           \* slider value, upper end
    warned,            \* st.warning("No data available ...") was issued in this pass
    summary,           \* the three st.metric values
    line,              \* the time-series section's output
    hist,              \* the histogram section's output
    metric_summary     \* the outlier-rate section's output

vars == << src, df, pc, df_filtered, selected_metrics, selected_devices, n_rows,
           start_idx, end_idx, warned, summary, line, hist, metric_summary >>

-----------------------------------------------------------------------------
(* Bounds and input domains *)

MaxRows == 3

\* missing cell of a string column (None / NaN)
NaN == "NaN"

MetricDomain == {"current", "fault"}

\* Timestamp cells.  kind "str": a string (v is its rank in lexicographic
\* order), "ts": a pandas Timestamp, "none": a missing string, "nat": NaT,
\* "int": an integer of a RangeIndex.
Str(c) == [kind |-> "str", v |-> c]

Ts(c) == [kind |-> "ts", v |-> c]

None == [kind |-> "none", v |-> 0]

NaT == [kind |-> "nat", v |-> 0]

Ord(i) == [kind |-> "int", v |-> i]

\* the one string of the domain that is no date ("not-a-date" sorts after the
\* ISO dates Str(1), Str(2))
NotADate == Str(3)

IsMissing(cell) == cell.kind \in {"none", "nat"}

Min(a, b) == IF a <= b THEN a ELSE b

Max(a, b) == IF a >= b THEN a ELSE b

Range(s) == {s[i] : i \in 1..Len(s)}

-----------------------------------------------------------------------------
(* Tables *)

NoTable == [index |-> << >>, col |-> [c \in {} |-> << >>], cats |-> [c \in {} |-> {}]]

Columns(t) == DOMAIN t.col

NRows(t) == Len(t.index)

\* df[name] = values  (values carry the categories cs when categorical is TRUE)
SetCol(t, name, values, categorical, cs) ==
    [t EXCEPT
       !.col = [c \in (DOMAIN t.col) \cup {name} |->
                   IF c = name THEN values ELSE t.col[c]],
       !.cats = [c \in IF categorical THEN (DOMAIN t.cats) \cup {name}
                       ELSE (DOMAIN t.cats) \ {name} |->
                   IF c = name THEN cs ELSE t.cats[c]]]

\* df[name] = df[from]
CopyCol(t, name, from) ==
    SetCol(t, name, t.col[from], from \in DOMAIN t.cats,
           IF from \in DOMAIN t.cats THEN t.cats[from] ELSE {})

\* the rows at the 1-based positions pos, in that order, labels kept
Take(t, pos) ==
    [t EXCEPT
       !.index = [i \in 1..Len(pos) |-> t.index[pos[i]]],
       !.col = [c \in DOMAIN t.col |-> [i \in 1..Len(pos) |-> t.col[c][pos[i]]]]]

\* df.reset_index(drop=True)
ResetIndex(t) == [t EXCEPT !.index = [i \in 1..Len(t.index) |-> i - 1]]

\* df.copy()
Copy(t) == t

-----------------------------------------------------------------------------
(* pd.to_datetime *)

Unparseable(cell) == cell = NotADate

ParseCell(cell) ==
    CASE cell.kind = "str"  -> Ts(cell.v)
      [] cell.kind = "none" -> NaT
      [] OTHER              -> cell

\* pd.to_datetime(values) with the default errors="raise" raises on a string
\* that is no date
ToDatetimeRaises(values) == \E i \in 1..Len(values) : Unparseable(values[i])

\* pd.to_datetime(values, errors=...): errors="ignore" returns the input
\* untouched when any value fails to parse
ToDatetime(values, errors) ==
    IF errors = "ignore" /\ ToDatetimeRaises(values)
    THEN values
    ELSE [i \in 1..Len(values) |-> ParseCell(values[i])]

-----------------------------------------------------------------------------
(* load_data *)

LoadTimestamp(t) ==
    IF "timestamp_utc" \notin Columns(t)
    THEN IF "ts_utc_parsed" \in Columns(t)
         THEN SetCol(t, "timestamp_utc", ToDatetime(t.col["ts_utc_parsed"], "raise"), FALSE, {})
         ELSE IF "ts_utc" \in Columns(t)
              THEN SetCol(t, "timestamp_utc", ToDatetime(t.col["ts_utc"], "raise"), FALSE, {})
              ELSE SetCol(t, "timestamp_utc", [i \in 1..NRows(t) |-> Ord(i - 1)], FALSE, {})
    ELSE SetCol(t, "timestamp_utc", ToDatetime(t.col["timestamp_utc"], "ignore"), FALSE, {})

LoadTimestampRaises(t) ==
    /\ "timestamp_utc" \notin Columns(t)
    /\ IF "ts_utc_parsed" \in Columns(t)
       THEN ToDatetimeRaises(t.col["ts_utc_parsed"])
       ELSE "ts_utc" \in Columns(t) /\ ToDatetimeRaises(t.col["ts_utc"])

LoadMetric(t) ==
    IF "metric_type" \notin Columns(t) /\ "dt" \in Columns(t)
    THEN CopyCol(t, "metric_type", "dt")
    ELSE t

LoadDevice(t) ==
    IF "device_id" \notin Columns(t) /\ "ref_d" \in Columns(t)
    THEN CopyCol(t, "device_id", "ref_d")
    ELSE t

LoadScaled(t) ==
    IF "scaled_value" \notin Columns(t)
    THEN IF "scaled_v" \in Columns(t)
         THEN CopyCol(t, "scaled_value", "scaled_v")
         ELSE IF "v" \in Columns(t)
              THEN CopyCol(t, "scaled_value", "v")
              ELSE t
    ELSE t

LoadOutlier(t) ==
    IF "outlier_type" \notin Columns(t)
    THEN SetCol(t, "outlier_type", [i \in 1..NRows(t) |-> "none"], FALSE, {})
    ELSE t

\* load_data raises (pd.to_datetime of a legacy timestamp column fails)
LoadRaises(s) == LoadTimestampRaises(ResetIndex(s))

\* the table load_data returns when it does not raise
LoadData(s) ==
    LoadOutlier(LoadScaled(LoadDevice(LoadMetric(LoadTimestamp(ResetIndex(s))))))

-----------------------------------------------------------------------------
(* The pickled source tables *)

\* The readings a source is built from.  ts is a code: 0 missing, 1 and 2 two
\* dates, 3 a third value (a date when the column holds Timestamps, the
\* string that is no date when it holds strings).
Readings ==
    { [ts |-> 1, metric |-> "current", device |-> "d1", value |-> 10, outlier |-> "none"],
      [ts |-> 2, metric |-> "current", device |-> "d2", value |-> 20, outlier |-> "spike"],
      [ts |-> 1, metric |-> "fault",   device |-> "d1", value |-> 30, outlier |-> "spike"],
      [ts |-> 3, metric |-> "fault",   device |-> "d2", value |-> 40, outlier |-> "none"],
      [ts |-> 0, metric |-> NaN,       device |-> NaN,  value |-> 50, outlier |-> "none"] }

Underlyings == UNION { [1..n -> Readings] : n \in 0..MaxRows }

TsNames == << "timestamp_utc", "ts_utc_parsed", "ts_utc" >>

MetricNames == << "metric_type", "dt" >>

DeviceNames == << "device_id", "ref_d" >>

ValueNames == << "scaled_value", "scaled_v", "v" >>

OutlierNames == << "outlier_type" >>

Fields == { TsNames, MetricNames, DeviceNames, ValueNames, OutlierNames }

AllNames == UNION { Range(f) : f \in Fields }

CanonicalNames == { f[1] : f \in Fields }

FieldOf(name) == CHOOSE f \in Fields : name \in Range(f)

\* the first name of field f (in the order of its fallback chain) that is
\* present, 0 when none is
FirstPresent(f, present) ==
    IF \E k \in 1..Len(f) : f[k] \in present
    THEN CHOOSE k \in 1..Len(f) :
            f[k] \in present /\ \A j \in 1..(k - 1) : f[j] \notin present
    ELSE 0

TsCell(code, raw) ==
    IF code = 0
    THEN IF raw = "string" THEN None ELSE NaT
    ELSE IF raw = "string" THEN Str(code) ELSE Ts(code)

\* the cell of reading r under field f
RealCell(r, f, raw) ==
    CASE f = TsNames      -> TsCell(r.ts, raw)
      [] f = MetricNames  -> r.metric
      [] f = DeviceNames  -> r.device
      [] f = ValueNames   -> r.value
      [] f = OutlierNames -> r.outlier

\* a different cell of the same type, held by the columns of f that come
\* after the first one present
OtherCell(r, f, raw) ==
    CASE f = TsNames      -> TsCell(IF r.ts = 1 THEN 2 ELSE 1, raw)
      [] f = MetricNames  -> IF r.metric = "current" THEN "fault" ELSE "current"
      [] f = DeviceNames  -> IF r.device = "d1" THEN "d2" ELSE "d1"
      [] f = ValueNames   -> r.value + 1
      [] f = OutlierNames -> r.outlier

\* The pickled table holding the readings U under the column names present:
\* for each field the first present name of its chain holds the readings'
\* values, a later one other values.  raw: timestamps stored as strings or
\* as Timestamps; categorical: the metric columns are of category dtype;
\* labels: the row labels the table was pickled with.
Source(U, present, raw, categorical, labels) ==
    [ index |-> [i \in 1..Len(U) |-> IF labels = "range" THEN i - 1 ELSE Len(U) - i],
      col   |-> [c \in present |->
                   [i \in 1..Len(U) |->
                       IF c = FieldOf(c)[FirstPresent(FieldOf(c), present)]
                       THEN RealCell(U[i], FieldOf(c), raw)
                       ELSE OtherCell(U[i], FieldOf(c), raw)]],
      cats  |-> [c \in IF categorical THEN present \cap Range(MetricNames) ELSE {} |->
                   MetricDomain] ]

\* the layouts the sources of any length come in
Layouts ==
    { [present |-> CanonicalNames, raw |-> "datetime", categorical |-> TRUE, labels |-> "range"],
      [present |-> CanonicalNames, raw |-> "string", categorical |-> FALSE, labels |-> "reversed"],
      [present |-> {"ts_utc_parsed", "dt", "ref_d", "scaled_v"}, raw |-> "datetime",
       categorical |-> FALSE, labels |-> "range"],
      [present |-> {"ts_utc", "dt", "ref_d", "v", "outlier_type"}, raw |-> "string",
       categorical |-> TRUE, labels |-> "range"],
      [present |-> {"metric_type", "device_id", "scaled_value", "outlier_type"},
       raw |-> "datetime", categorical |-> FALSE, labels |-> "reversed"],
      [present |-> {"dt", "ref_d", "scaled_v", "v"}, raw |-> "datetime",
       categorical |-> TRUE, labels |-> "range"],
      [present |-> AllNames, raw |-> "string", categorical |-> FALSE, labels |-> "range"] }

\* The pickles load_data is run on: the readings of any length up to MaxRows
\* under each layout, and those of at most one row under every set of column
\* names.
Sources ==
    { Source(U, l.present, l.raw, l.categorical, l.labels) :
        U \in Underlyings, l \in Layouts }
    \cup
    { Source(U, present, raw, FALSE, labels) :
        U \in {u \in Underlyings : Len(u) <= 1}, present \in SUBSET AllNames,
        raw \in {"string", "datetime"}, labels \in {"range", "reversed"} }

-----------------------------------------------------------------------------
(* Outputs of a render pass *)

NoSummary == [state |-> "none", readings |-> 0, devices |-> 0,
              outlier_rate |-> [nan |-> FALSE, num |-> 0, den |-> 1]]

NoLine == [state |-> "none", metric |-> NaN, index |-> << >>, values |-> << >>]

NoHist == [state |-> "none", values |-> << >>]

NoMetricSummary == [state |-> "none", rows |-> [m \in {} |-> 0]]

Init ==
    /\ src \in Sources
    /\ df = NoTable
    /\ pc = "load"
    /\ df_filtered = NoTable
    /\ selected_metrics = {}
    /\ selected_devices = {}
    /\ n_rows = 0
    /\ start_idx = 0
    /\ end_idx = 0
    /\ warned = FALSE
    /\ summary = NoSummary
    /\ line = NoLine
    /\ hist = NoHist
    /\ metric_summary = NoMetricSummary

\* df = load_data()   (line 57)
Load ==
    /\ pc = "load"
    /\ IF LoadRaises(src)
       THEN /\ pc' = "load_failed"
            /\ df' = df
       ELSE /\ pc' = "metric_filter"
            /\ df' = LoadData(src)
    /\ UNCHANGED << src, df_filtered, selected_metrics, selected_devices, n_rows,
                    start_idx, end_idx, warned, summary, line, hist, metric_summary >>

-----------------------------------------------------------------------------
(* Helpers of the render pass *)

\* variant of MaskPositions: the mask negated
MaskPositionsNegated(t, c, allowed) ==
    SelectSeq([i \in 1..Len(t.index) |-> i], LAMBDA i : t.col[c][i] \notin allowed)

\* the 1-based positions of the rows whose cell in column c is in `allowed`
\* (the boolean mask df[c].isin(allowed)), ascending
MaskPositions(t, c, allowed) ==
    SelectSeq([i \in 1..NRows(t) |-> i], LAMBDA i : t.col[c][i] \in allowed)

\* t[t[c].isin(allowed)]
IsinFilter(t, c, allowed) == Take(t, MaskPositions(t, c, allowed))

\* sorted(t[c].dropna().unique()), as a set
Options(t, c) == Range(t.col[c]) \ {NaN}

\* a <= b for two cells of a sorted column (missing cells are placed last)
CellLe(a, b) ==
    \/ IsMissing(b)
    \/ ~IsMissing(a) /\ a.v <= b.v

\* variant of SortOrders: descending
SortOrdersDescending(t, c) ==
    { p \in Permutations(1..NRows(t)) :
        \A i \in 1..(NRows(t) - 1) : CellLe(t.col[c][p[i + 1]], t.col[c][p[i]]) }

\* The orders t.sort_values(c) may return: the permutations of the positions
\* that list the keys ascending with the missing ones last.  The default
\* kind="quicksort" is not stable, so rows of equal key come in any order.
SortOrders(t, c) ==
    { p \in Permutations(1..NRows(t)) :
        \A i \in 1..(NRows(t) - 1) : CellLe(t.col[c][p[i]], t.col[c][p[i + 1]]) }

\* variant of Iloc: the last position of the slice left out
IlocShort(t, a, b) ==
    Take(t, [i \in 1..Max(0, Min(b - 1, NRows(t)) - a) |-> a + i])

\* t.iloc[a : b], a Python slice of positions (0 <= a)
Iloc(t, a, b) ==
    Take(t, [i \in 1..Max(0, Min(b, NRows(t)) - a) |-> a + i])

\* number of rows of t whose outlier_type is not "none"
CountOutliers(t) ==
    Cardinality({i \in 1..NRows(t) : t.col["outlier_type"][i] # "none"})

\* num / den as pandas computes it: NaN for 0 / 0
Rate(num, den) ==
    IF den = 0
    THEN [nan |-> TRUE, num |-> 0, den |-> 1]
    ELSE [nan |-> FALSE, num |-> num, den |-> den]

\* the group keys of t.groupby("metric_type", observed=False): every category
\* of a categorical column, the values present (NaN dropped) of any other
GroupKeys(t) ==
    IF "metric_type" \in DOMAIN t.cats
    THEN t.cats["metric_type"]
    ELSE Options(t, "metric_type")

\* variant of MetricSummary: the two aggregations swapped
MetricSummarySwapped(t) ==
    [m \in GroupKeys(t) |->
        LET g == IsinFilter(t, "metric_type", {m})
        IN  [n_readings   |-> CountOutliers(g),
             n_outliers   |-> NRows(g),
             outlier_rate |-> Rate(NRows(g), CountOutliers(g))]]

\* the aggregated table of lines 181-191
MetricSummary(t) ==
    [m \in GroupKeys(t) |->
        LET g == IsinFilter(t, "metric_type", {m})
        IN  [n_readings   |-> NRows(g),
             n_outliers   |-> CountOutliers(g),
             outlier_rate |-> Rate(CountOutliers(g), NRows(g))]]

\* variants of the guard: n_rows < 1, n_rows == 1
NoDataOnlyEmpty(n) == n < 1

NoDataOnlySingle(n) == n = 1

\* the guard of line 92
NoData(n) == n <= 1

-----------------------------------------------------------------------------
(* The render pass, section by section *)

\* lines 66-76: df_filtered = df.copy(), the metric multiselect and its mask.
\* df_filtered["metric_type"] raises KeyError when the column is absent.
MetricFilter ==
    /\ pc = "metric_filter"
    /\ IF "metric_type" \notin Columns(df)
       THEN /\ pc' = "crashed"
            /\ df_filtered' = Copy(df)
            /\ UNCHANGED selected_metrics
       ELSE \E sel \in SUBSET Options(Copy(df), "metric_type") :
               /\ selected_metrics' = sel
               /\ df_filtered' = IsinFilter(Copy(df), "metric_type", sel)
               /\ pc' = "device_filter"
    /\ UNCHANGED << src, df, selected_devices, n_rows, start_idx, end_idx,
                    warned, summary, line, hist, metric_summary >>

\* lines 79-86: the device multiselect (options taken after the metric
\* filter) and its mask
DeviceFilter ==
    /\ pc = "device_filter"
    /\ IF "device_id" \notin Columns(df_filtered)
       THEN /\ pc' = "crashed"
            /\ UNCHANGED << selected_devices, df_filtered >>
       ELSE \E sel \in SUBSET Options(df_filtered, "device_id") :
               /\ selected_devices' = sel
               /\ df_filtered' = IsinFilter(df_filtered, "device_id", sel)
               /\ pc' = "sort"
    /\ UNCHANGED << src, df, selected_metrics, n_rows, start_idx, end_idx,
                    warned, summary, line, hist, metric_summary >>

\* variant of SortAndGuard: the sort done in place on the cached table
SortAndGuardInPlace ==
    /\ pc = "sort"
    /\ \E p \in SortOrders(df_filtered, "timestamp_utc") :
          LET sorted == ResetIndex(Take(df_filtered, p))
          IN  /\ df_filtered' = sorted
              /\ df' = sorted
              /\ n_rows' = NRows(sorted)
              /\ IF NoData(NRows(sorted))
                 THEN warned' = TRUE /\ pc' = "stopped"
                 ELSE warned' = warned /\ pc' = "slider"
    /\ UNCHANGED << src, selected_metrics, selected_devices, start_idx, end_idx,
                    summary, line, hist, metric_summary >>

\* lines 89-94: sort by timestamp_utc, reset the index, count, and the
\* no-data guard (st.warning, st.stop)
SortAndGuard ==
    /\ pc = "sort"
    /\ \E p \in SortOrders(df_filtered, "timestamp_utc") :
          LET sorted == ResetIndex(Take(df_filtered, p))
          IN  /\ df_filtered' = sorted
              /\ n_rows' = NRows(sorted)
              /\ IF NoData(NRows(sorted))
                 THEN warned' = TRUE /\ pc' = "stopped"
                 ELSE warned' = warned /\ pc' = "slider"
    /\ UNCHANGED << src, df, selected_metrics, selected_devices, start_idx, end_idx,
                    summary, line, hist, metric_summary >>

\* lines 96-104: the range slider over 0..n_rows-1 and the iloc cut
Slider ==
    /\ pc = "slider"
    /\ \E s \in 0..(n_rows - 1) : \E e \in s..(n_rows - 1) :
          /\ start_idx' = s
          /\ end_idx' = e
          /\ df_filtered' = Iloc(df_filtered, s, e + 1)
    /\ pc' = "summary"
    /\ UNCHANGED << src, df, selected_metrics, selected_devices, n_rows,
                    warned, summary, line, hist, metric_summary >>

\* lines 122-129: the three st.metric values
Summary ==
    /\ pc = "summary"
    /\ summary' = [state        |-> "shown",
                   readings     |-> NRows(df_filtered),
                   devices      |-> Cardinality(Options(df_filtered, "device_id")),
                   outlier_rate |-> Rate(CountOutliers(df_filtered), NRows(df_filtered))]
    /\ pc' = "time_series"
    /\ UNCHANGED << src, df, df_filtered, selected_metrics, selected_devices, n_rows,
                    start_idx, end_idx, warned, line, hist, metric_summary >>

\* lines 138-154: the selectbox over the metrics of the view, the rows of
\* that metric sorted by timestamp_utc, and the line chart of scaled_value
\* (KeyError when the column is absent)
TimeSeries ==
    /\ pc = "time_series"
    /\ IF NRows(df_filtered) = 0
       THEN /\ line' = [NoLine EXCEPT !.state = "warning"]
            /\ pc' = "histogram"
       ELSE \E metric_for_line \in Range(df_filtered.col["metric_type"]) :
            \E p \in SortOrders(IsinFilter(df_filtered, "metric_type", {metric_for_line}),
                                "timestamp_utc") :
               LET df_line == Take(Copy(IsinFilter(df_filtered, "metric_type",
                                                   {metric_for_line})), p)
               IN  IF NRows(df_line) = 0
                   THEN /\ line' = [NoLine EXCEPT !.state = "info",
                                                  !.metric = metric_for_line]
                        /\ pc' = "histogram"
                   ELSE IF "scaled_value" \notin Columns(df_line)
                        THEN /\ line' = line
                             /\ pc' = "crashed"
                        ELSE /\ line' = [state  |-> "chart",
                                         metric |-> metric_for_line,
                                         index  |-> df_line.col["timestamp_utc"],
                                         values |-> df_line.col["scaled_value"]]
                             /\ pc' = "histogram"
    /\ UNCHANGED << src, df, df_filtered, selected_metrics, selected_devices, n_rows,
                    start_idx, end_idx, warned, summary, hist, metric_summary >>

\* lines 163-170: the histogram of scaled_value
Histogram ==
    /\ pc = "histogram"
    /\ IF NRows(df_filtered) # 0
       THEN IF "scaled_value" \notin Columns(df_filtered)
            THEN hist' = hist /\ pc' = "crashed"
            ELSE /\ hist' = [state |-> "plot", values |-> df_filtered.col["scaled_value"]]
                 /\ pc' = "outlier_table"
       ELSE /\ hist' = [NoHist EXCEPT !.state = "info"]
            /\ pc' = "outlier_table"
    /\ UNCHANGED << src, df, df_filtered, selected_metrics, selected_devices, n_rows,
                    start_idx, end_idx, warned, summary, line, metric_summary >>

\* lines 179-196: the per-metric outlier table
OutlierTable ==
    /\ pc = "outlier_table"
    /\ IF NRows(df_filtered) # 0
       THEN metric_summary' = [state |-> "table", rows |-> MetricSummary(df_filtered)]
       ELSE metric_summary' = [NoMetricSummary EXCEPT !.state = "info"]
    /\ pc' = "done"
    /\ UNCHANGED << src, df, df_filtered, selected_metrics, selected_devices, n_rows,
                    start_idx, end_idx, warned, summary, line, hist >>

\* A widget event reruns the script from the top; load_data() is answered by
\* st.cache_data with the table of the first call (lines 9, 57).
Rerun ==
    /\ pc \in {"done", "stopped", "crashed"}
    /\ pc' = "metric_filter"
    /\ df' = df
    /\ df_filtered' = NoTable
    /\ selected_metrics' = {}
    /\ selected_devices' = {}
    /\ n_rows' = 0
    /\ start_idx' = 0
    /\ end_idx' = 0
    /\ warned' = FALSE
    /\ summary' = NoSummary
    /\ line' = NoLine
    /\ hist' = NoHist
    /\ metric_summary' = NoMetricSummary
    /\ UNCHANGED src

Next ==
    \/ Load
    \/ MetricFilter
    \/ DeviceFilter
    \/ SortAndGuard
    \/ Slider
    \/ Summary
    \/ TimeSeries
    \/ Histogram
    \/ OutlierTable
    \/ Rerun

Spec == Init /\ [][Next]_vars

-----------------------------------------------------------------------------
(* Properties *)

Loaded == pc \notin {"load", "load_failed"}

\* positions of the script after the no-data guard let the pass through
PastGuard == {"slider", "summary", "time_series", "histogram", "outlier_table", "done"}

\* the pass went through both filters and the sort
Guarded == pc \in PastGuard \cup {"stopped"}

NoOutputs ==
    /\ summary = NoSummary
    /\ line = NoLine
    /\ hist = NoHist
    /\ metric_summary = NoMetricSummary

\* the positions of the rows of the Dataset that satisfy both memberships
Matching(M, D) ==
    { i \in 1..NRows(df) :
        df.col["metric_type"][i] \in M /\ df.col["device_id"][i] \in D }

\* C1 as stated: whatever columns the source has, the table load_data
\* returns has all five canonical columns.
C1_AllFiveColumns == Loaded => CanonicalNames \subseteq Columns(df)

\* C1, what load_data does instead: the table it returns always has
\* timestamp_utc and outlier_type, but has metric_type, device_id and
\* scaled_value only when the source has that column or one of its legacy
\* names.
C1_ColumnsByFallback ==
    Loaded =>
        /\ {"timestamp_utc", "outlier_type"} \subseteq Columns(df)
        /\ \A f \in {MetricNames, DeviceNames, ValueNames} :
              f[1] \in Columns(df) <=> Range(f) \cap Columns(src) # {}

\* C2: a pass whose rows left after the metric and the device filter number
\* 0 or 1 warns and stops with no range selected and no output computed; a
\* pass with 2 or more rows left is not stopped by the guard.
C2_NoDataGuard ==
    Guarded =>
        LET k == Cardinality(Matching(selected_metrics, selected_devices))
        IN  /\ n_rows = k
            /\ k <= 1 => /\ pc = "stopped"
                          /\ warned
                          /\ NoOutputs
                          /\ NRows(df_filtered) = k
                          /\ start_idx = 0 /\ end_idx = 0
            /\ k >= 2 => pc \in PastGuard /\ ~warned

C2_Witness ==
    /\ pc = "stopped"
    /\ NRows(df) >= 2
    /\ Cardinality(Matching(selected_metrics, selected_devices)) = 1

\* C3 as stated: with every metric deselected the pass still renders all
\* its outputs in their empty form (0 readings, 0 devices, rate 0, the
\* placeholders, and a table whose every rate is NaN).
C3_EmptySelectionRendersAll ==
    (pc \in {"stopped", "done"} /\ selected_metrics = {}) =>
        /\ summary.state = "shown"
        /\ summary.readings = 0
        /\ summary.devices = 0
        /\ ~summary.outlier_rate.nan /\ summary.outlier_rate.num = 0
        /\ line.state = "warning"
        /\ hist.state = "info"
        /\ metric_summary.state = "table"
        /\ \A m \in DOMAIN metric_summary.rows : metric_summary.rows[m].outlier_rate.nan

\* C3 amended: with every metric deselected no row is left, and the pass
\* warns "no data" and stops at the guard: it never reaches the slider and
\* computes no summary, time series, histogram or outlier table.
C3_EmptySelectionStops ==
    (Loaded /\ pc \notin {"metric_filter", "crashed"} /\ selected_metrics = {}) =>
        /\ NRows(df_filtered) = 0
        /\ pc \in {"device_filter", "sort", "stopped"}
        /\ pc = "stopped" => warned
        /\ NoOutputs

C3_Witness ==
    /\ pc = "stopped"
    /\ selected_metrics = {}
    /\ Cardinality(Options(df, "metric_type")) = 2
    /\ NRows(df) >= 2
    /\ warned

\* the row count of the pass the script makes of the Dataset under the
\* selection (M, D, s, e): the rows left at the guard when it stops there,
\* those of the range cut otherwise
Candidate(M, D) ==
    IsinFilter(IsinFilter(Copy(df), "metric_type", M), "device_id", D)

ViewCount(M, D, s, e) ==
    LET cand   == Candidate(M, D)
        sorted == ResetIndex(Take(cand, CHOOSE p \in SortOrders(cand, "timestamp_utc") : TRUE))
    IN  IF NoData(NRows(sorted))
        THEN NRows(sorted)
        ELSE NRows(Iloc(sorted, s, e + 1))

\* the selection (M, D, s, e) is one the widgets can return
Selectable(M, D, s, e) ==
    /\ M \subseteq Options(df, "metric_type")
    /\ D \subseteq Options(IsinFilter(Copy(df), "metric_type", M), "device_id")
    /\ LET n == NRows(Candidate(M, D))
       IN  IF NoData(n)
           THEN s = 0 /\ e = 0
           ELSE 0 <= s /\ s <= e /\ e <= n - 1

\* C4: narrowing one dimension of the selection of a pass (fewer metrics,
\* fewer devices, or a row range inside the old one), the other two kept,
\* never gives more rows, neither at the guard nor in the Filtered View.
C4_NarrowingMonotone ==
    pc \in {"summary", "stopped"} =>
        /\ \A M \in SUBSET selected_metrics :
              Selectable(M, selected_devices, start_idx, end_idx) =>
                 /\ NRows(Candidate(M, selected_devices)) <= n_rows
                 /\ ViewCount(M, selected_devices, start_idx, end_idx) <= NRows(df_filtered)
        /\ \A D \in SUBSET selected_devices :
              Selectable(selected_metrics, D, start_idx, end_idx) =>
                 /\ NRows(Candidate(selected_metrics, D)) <= n_rows
                 /\ ViewCount(selected_metrics, D, start_idx, end_idx) <= NRows(df_filtered)
        /\ \A s \in start_idx..end_idx : \A e \in s..end_idx :
              ViewCount(selected_metrics, selected_devices, s, e) <= NRows(df_filtered)

C4_Witness ==
    /\ pc = "summary"
    /\ NRows(df_filtered) = 2
    /\ \E M \in SUBSET selected_metrics :
          /\ M # selected_metrics
          /\ Selectable(M, selected_devices, start_idx, end_idx)
          /\ NRows(Candidate(M, selected_devices)) = 2
          /\ n_rows = 3
          /\ ViewCount(M, selected_devices, start_idx, end_idx) = 2
    /\ ViewCount(selected_metrics, selected_devices, start_idx, start_idx) = 1

RECURSIVE SumReadings(_, _)
SumReadings(rows, keys) ==
    IF keys = {}
    THEN 0
    ELSE LET m == CHOOSE x \in keys : TRUE
         IN  rows[m].n_readings + SumReadings(rows, keys \ {m})

\* C5: whenever the outlier table is computed, its n_readings add up to the
\* row count of the Filtered View and no row has more outliers than readings.
C5_ReadingsAddUp ==
    metric_summary.state = "table" =>
        /\ SumReadings(metric_summary.rows, DOMAIN metric_summary.rows) = NRows(df_filtered)
        /\ \A m \in DOMAIN metric_summary.rows :
              metric_summary.rows[m].n_outliers <= metric_summary.rows[m].n_readings

C5_Witness ==
    /\ pc = "done"
    /\ metric_summary.state = "table"
    /\ NaN \in Range(df.col["metric_type"])
    /\ NRows(df_filtered) = 2
    /\ Cardinality(DOMAIN metric_summary.rows) = 2
    /\ \E m \in DOMAIN metric_summary.rows :
          metric_summary.rows[m].n_outliers = 1 /\ metric_summary.rows[m].n_readings = 1

\* The source of the same values under the canonical names: each field's
\* canonical column holds what the first present name of its chain holds.
CanonicalForm(s) ==
    LET named == { f \in Fields : FirstPresent(f, Columns(s)) # 0 }
        from(f) == f[FirstPresent(f, Columns(s))]
    IN  [ index |-> s.index,
          col   |-> [c \in { f[1] : f \in named } |-> s.col[from(FieldOf(c))]],
          cats  |-> [c \in { f[1] : f \in {g \in named : from(g) \in DOMAIN s.cats} } |->
                       s.cats[from(FieldOf(c))]] ]

\* the canonical columns of a table
CanonicalPart(t) ==
    [ index |-> t.index,
      col   |-> [c \in Columns(t) \cap CanonicalNames |-> t.col[c]],
      cats  |-> [c \in (DOMAIN t.cats) \cap CanonicalNames |-> t.cats[c]] ]

\* C6: load_data gives a source under legacy names the canonical columns it
\* gives the source of the same values under the canonical names (first
\* match wins, a canonical column is never overwritten).
C6_LegacyNamingEquivalent ==
    pc # "load" =>
        /\ pc # "load_failed"
        /\ CanonicalPart(df) = CanonicalPart(LoadData(CanonicalForm(src)))

\* the source has none of the three timestamp columns
NoTimestampSource == Columns(src) \cap Range(TsNames) = {}

\* the rows of t are rows of the Dataset, listed in the Dataset's order: the
\* ordinals in timestamp_utc ascend strictly and each row is the Dataset's
\* row at its ordinal
InSourceOrder(t) ==
    /\ \A i \in 1..(NRows(t) - 1) :
          t.col["timestamp_utc"][i].v < t.col["timestamp_utc"][i + 1].v
    /\ \A i \in 1..NRows(t) : \A c \in Columns(t) :
          t.col[c][i] = df.col[c][t.col["timestamp_utc"][i].v + 1]

\* C7: from a source with no timestamp column load_data gives row i the
\* timestamp_utc i, and both sorts by timestamp_utc (of the filtered rows, of
\* the time series) list the surviving rows in source order.
C7_OrdinalTimeKeepsSourceOrder ==
    (NoTimestampSource /\ Loaded) =>
        /\ df.col["timestamp_utc"] = [i \in 1..NRows(src) |-> Ord(i - 1)]
        /\ \A c \in Columns(src) : df.col[c] = src.col[c]
        /\ pc \in {"stopped", "slider"} =>
              df_filtered.col = Take(df, [i \in 1..Cardinality(Matching(selected_metrics, selected_devices)) |->
                    CHOOSE k \in Matching(selected_metrics, selected_devices) :
                       Cardinality({j \in Matching(selected_metrics, selected_devices) : j < k}) = i - 1]).col
        /\ Guarded => InSourceOrder(df_filtered)
        /\ line.state = "chart" =>
              /\ \A i \in 1..(Len(line.index) - 1) : line.index[i].v < line.index[i + 1].v
              /\ \A i \in 1..Len(line.index) :
                    /\ line.values[i] = df.col["scaled_value"][line.index[i].v + 1]
                    /\ df.col["metric_type"][line.index[i].v + 1] = line.metric
              /\ Len(line.index) =
                    Cardinality({i \in 1..NRows(df_filtered) :
                                   df_filtered.col["metric_type"][i] = line.metric})

C7_Witness ==
    /\ NoTimestampSource
    /\ pc = "histogram"
    /\ line.state = "chart"
    /\ Len(line.index) = 2
    /\ NRows(df_filtered) = 3
    /\ line.index[1].v + 1 < line.index[2].v

\* C8: the Dataset stays the table load_data returned, through every step
\* of every render pass (those stopped at the guard included).
C8_DatasetReadOnly == Loaded => df = LoadData(src)

C8_Witness ==
    /\ pc = "done"
    /\ NRows(df) = 3
    /\ NRows(df_filtered) = 2
    /\ df_filtered.col["timestamp_utc"][1] # df.col["timestamp_utc"][1]
    /\ df_filtered.col["timestamp_utc"][2] = df.col["timestamp_utc"][1]

\* the metric types of the Dataset: the values present and, for a
\* categorical column, its categories
MetricTypes ==
    Options(df, "metric_type") \cup
    (IF "metric_type" \in DOMAIN df.cats THEN df.cats["metric_type"] ELSE {})

\* C9: the outlier table has a row for every metric type of the Dataset; a
\* metric with no row in the view has 0 readings, 0 outliers and a NaN rate.
C9_FullMetricDomain ==
    metric_summary.state = "table" =>
        /\ DOMAIN metric_summary.rows = MetricTypes
        /\ \A m \in MetricTypes :
              m \notin Range(df_filtered.col["metric_type"]) =>
                 /\ metric_summary.rows[m].n_readings = 0
                 /\ metric_summary.rows[m].n_outliers = 0
                 /\ metric_summary.rows[m].outlier_rate.nan

\* C10: past the guard the Filtered View is the rows at positions
\* start_idx..end_idx (inclusive) of the rows matching both memberships put
\* in ascending timestamp_utc order, end_idx - start_idx + 1 >= 1 of them,
\* and no section takes its empty-view branch.
C10_ViewIsInclusiveSlice ==
    pc \in PastGuard \ {"slider"} =>
        /\ 0 <= start_idx /\ start_idx <= end_idx /\ end_idx <= n_rows - 1
        /\ NRows(df_filtered) = end_idx - start_idx + 1
        /\ LET cand == Candidate(selected_metrics, selected_devices)
           IN  \E p \in SortOrders(cand, "timestamp_utc") :
                  \A c \in Columns(df) :
                     df_filtered.col[c] =
                        SubSeq([i \in 1..NRows(cand) |-> cand.col[c][p[i]]],
                               start_idx + 1, end_idx + 1)
        /\ line.state \in {"none", "chart"}
        /\ hist.state \in {"none", "plot"}
        /\ metric_summary.state \in {"none", "table"}
        /\ pc = "done" => /\ summary.state = "shown"
                          /\ line.state = "chart"
                          /\ hist.state = "plot"
                          /\ metric_summary.state = "table"

C10_Witness ==
    /\ pc = "done"
    /\ n_rows = 3
    /\ start_idx = 1
    /\ end_idx = 1
    /\ NRows(df_filtered) = 1
    /\ line.state = "chart"
    /\ metric_summary.state = "table"

====
